---- MODULE Spec2Model ----
(***************************************************************************)
(* A model of the two Cloudflare Workflows of ghananewsinbrief:            *)
(*   JoyNewsScraperWorkflow  (Discovery): fetch listing + feed, bulk-check *)
(*       the KV cache, assemble articles, createBatch processor instances; *)
(*   GHNewsProcessorWorkflow (Delivery): check_if_processed,               *)
(*       generate_summary, create_message, send_telegram_message,          *)
(*       mark_as_processed.                                                *)
(* Every step.do of the source is one action.  The KV namespace            *)
(* GH_NEWS_CACHE, the clock, the Summarizer (Gemini) and the Notifier      *)
(* (Telegram) are the environment: their answers are drawn with \E.        *)
(* Strings that the code concatenates or encodes are sequences of          *)
(* characters, so that "article:" + url and encodeURI are computed.        *)
(***************************************************************************)
EXTENDS Integers, Sequences, FiniteSets, TLC

VARIABLES
    kv,         \* GH_NEWS_CACHE: key -> [url, processed_at, expiration]
    now,        \* the clock, in seconds
    procs,      \* the GHNewsProcessorWorkflow instances, in creation order
    runs,       \* the JoyNewsScraperWorkflow instances, in creation order
    world,      \* the surroundings of a behaviour: what the news site
                \* serves, which collaborator fails, what callers send
    manualLeft, \* POST /api/workflows/processor requests still to come
    cronLeft    \* scraper triggers (cron or POST) still to come

vars == <<kv, now, procs, runs, world, manualLeft, cronLeft>>

page == world.page      \* the links the listing page holds
feed == world.feed      \* the links the RSS feed has an item for
env == world.env        \* which collaborator, if any, is failing

----------------------------------------------------------------------------
(* Bounds of the model *)

MaxProcs == 2        \* processor instances ever created
MaxManual == 2       \* POST /api/workflows/processor requests
MaxRuns == 2         \* scraper instances ever created
MaxTicks == 1
MaxSlowProcs == 1    \* processor instances created while steps time out
MaxSiteRuns == 1     \* scraper instances created while the site fails
MaxLongRuns == 1     \* scraper instances created against the long listing
MaxFailingRuns == 1  \* scraper instances created while the Summarizer fails
TickSeconds == 86400

(* Program constants *)

ttl == 86400                 \* gh-news-processor.ts:113
SummaryRetryLimit == 3       \* gh-news-processor.ts:38
SendRetryLimit == 5          \* gh-news-processor.ts:64
MarkRetryLimit == 3          \* gh-news-processor.ts:98
FetchRetryLimit == 3         \* joy-news-scraper.ts: fetch steps, retries.limit
BulkLimit == 100             \* keys one bulk read of the store may carry

ProcessorCachePrefix == "article:"
ScraperCachePrefix == "article:"

URLs == {"a", "b"}

(* Characters of an image URL.  LoneSurrogate stands for an unpaired UTF-16 *)
(* surrogate, on which encodeURI throws a URIError.                        *)
LoneSurrogate == "\\uD800"
fallbackImageUrl == <<"f">>
NoImage == <<>>
SpacedImage == <<"i", " ", "g">>
MalformedImage == <<"i", LoneSurrogate>>

----------------------------------------------------------------------------
(* Pure helpers *)

(* encodeURI on the characters the model uses: a space becomes %20, a      *)
(* percent sign becomes %25, everything else is kept.                      *)
RECURSIVE encodeURI(_)
encodeURI(s) ==
    IF s = <<>> THEN <<>>
    ELSE LET c == Head(s)
             e == IF c = " " THEN <<"%", "2", "0">>
                  ELSE IF c = "%" THEN <<"%", "2", "5">>
                  ELSE <<c>>
         IN e \o encodeURI(Tail(s))

encodeURIThrows(s) == \E k \in 1..Len(s) : s[k] = LoneSurrogate

(* Faulty variant: every article is recorded under the bare prefix.        *)
ProcessorCacheKeyShared(url) == <<ProcessorCachePrefix>>

(* `${this.CACHE_KEY_PREFIX}${article.url}` in the processor *)
ProcessorCacheKey(url) == <<ProcessorCachePrefix>> \o <<url>>

(* Faulty variant: the scraper looks the link up without the prefix.       *)
ScraperCacheKeyBare(link) == <<link>>

(* `${this.CACHE_KEY_PREFIX}${link}` in the scraper *)
ScraperCacheKey(link) == <<ScraperCachePrefix>> \o <<link>>

(* Faulty variant: an entry outlives its expirationTtl.                    *)
KVLiveForever(key) == key \in DOMAIN kv

(* KV get: null for a key never written or whose expirationTtl has passed. *)
KVLive(key) == key \in DOMAIN kv /\ now < kv[key].expiration
KVGetIsNull(key) == ~KVLive(key)

(* KV put with expirationTtl *)
KVPut(key, url, seconds) ==
    [k \in DOMAIN kv \cup {key} |->
        IF k = key
        THEN [url |-> url, processed_at |-> now, expiration |-> now + seconds]
        ELSE kv[k]]

(* Whether url was ever recorded: the store keeps the last entry written   *)
(* under a key, and get no longer returns it once its TTL has passed.      *)
Known(url) == \E k \in DOMAIN kv : kv[k].url = url

(* Whether the store holds a live entry whose metadata names url, whatever *)
(* key it was written under.                                               *)
Delivered(url) ==
    \E k \in DOMAIN kv : kv[k].url = url /\ now < kv[k].expiration

----------------------------------------------------------------------------
(* Environment answers *)

SummarizerOutcomes == {"text", "empty", "throw"}  \* generateObject's result
NotifierOutcomes == {"ok", "notok", "throw"}      \* the sendPhoto request

(* The collaborator that may fail in a behaviour: none, the Summarizer,     *)
(* the Notifier, the KV store's put, the step timeouts, the news site.     *)
Environments == {"healthy", "summarizer", "notifier", "kv", "slow", "site"}

(* Whether a step that has failed `attempts` times is out of retries.      *)
StepExhausted(attempts, limit) == attempts >= limit

----------------------------------------------------------------------------
(* utils.ts *)

(* summarizeArticle: the summary, or null when generateObject throws.      *)
summarizeArticle(outcome) ==
    CASE outcome = "text"  -> "summary"
      [] outcome = "empty" -> ""
      [] OTHER             -> "null"

(* Faulty variant: only null is taken for a missing summary.               *)
FalsyNullOnly(summary) == summary = "null"

(* JavaScript's !summary for the values a summary takes *)
Falsy(summary) == summary \in {"null", ""}

Call(photo, outcome) == [photo |-> photo, ok |-> (outcome = "ok")]

(* sendTelegramMessage, first definition: supplied image, then fallback.   *)
sendTelegramMessageWithFallback(imageUrl, o1, o2) ==
    IF encodeURIThrows(imageUrl)
    THEN [calls |-> <<>>, ret |-> FALSE]
    ELSE LET first == Call(encodeURI(imageUrl), o1)
         IN IF o1 = "ok"
            THEN [calls |-> <<first>>, ret |-> TRUE]
            ELSE [calls |-> <<first, Call(fallbackImageUrl, o2)>>,
                  ret |-> (o2 = "ok")]

(* sendTelegramMessage, second definition: one request, no fallback.       *)
sendTelegramMessagePlain(imageUrl, o1, o2) ==
    IF encodeURIThrows(imageUrl)
    THEN [calls |-> <<>>, ret |-> FALSE]
    ELSE [calls |-> <<Call(encodeURI(imageUrl), o1)>>, ret |-> (o1 = "ok")]

(* The module declares sendTelegramMessage twice; def says which of the   *)
(* two a call reaches.                                                     *)
SendDefinitions == {1, 2}

sendTelegramMessage(def, imageUrl, o1, o2) ==
    IF def = 1
    THEN sendTelegramMessageWithFallback(imageUrl, o1, o2)
    ELSE sendTelegramMessagePlain(imageUrl, o1, o2)

----------------------------------------------------------------------------
(* GHNewsProcessorWorkflow *)

NoResult ==
    [returned |-> FALSE, success |-> FALSE, skipped |-> FALSE, reason |-> "",
     url |-> "", telegramSent |-> FALSE]

SkippedResult(url) ==
    [returned |-> TRUE, success |-> TRUE, skipped |-> TRUE,
     reason |-> "Article already processed", url |-> url,
     telegramSent |-> FALSE]

SuccessResult(url) ==
    [returned |-> TRUE, success |-> TRUE, skipped |-> FALSE, reason |-> "",
     url |-> url, telegramSent |-> TRUE]

NoError == <<>>
SummaryError(url) == <<"Failed to generate summary for article: ", url>>
SendError(url) == <<"Failed to send Telegram message for article: ", url>>
StepError(name) == <<"step failed after retries: ", name>>

(* A fresh instance: event.payload and the bookkeeping of its run.         *)
(* origin is the scraper run that created it, 0 for the HTTP endpoint.     *)
NewProc(url, image, reprocess, origin) ==
    [url |-> url, image_url |-> image, reprocess |-> reprocess,
     origin |-> origin, pc |-> "START", attempts |-> 0,
     summary |-> "unset", sendLog |-> <<>>, delivered |-> FALSE,
     cacheReads |-> 0, summarizerCalls |-> 0, notifierCalls |-> 0,
     cacheWrites |-> 0, liveAtCheck |-> FALSE, sentLive |-> FALSE,
     failedAfter |-> 0, unrecordedAtCheck |-> FALSE,
     result |-> NoResult, error |-> NoError]

ProcIds == 1..Len(procs)

(* Faulty variant: a failed attempt restarts the run from its first step.  *)
AfterFailedAttemptRestart(p, step, limit) ==
    [p EXCEPT !.pc = "START", !.attempts = 0]

(* Faulty variant: the count of attempts starts over at the limit, so a    *)
(* failing step is retried for ever.                                       *)
AfterFailedAttemptForever(p, step, limit) ==
    [p EXCEPT !.pc = step, !.attempts = (@ + 1) % limit]

(* A step attempt that threw or timed out: retry, or fail the instance.    *)
(* failedAfter is the number of attempts the failing step had when the     *)
(* instance failed.                                                        *)
AfterFailedAttempt(p, step, limit) ==
    IF StepExhausted(p.attempts + 1, limit)
    THEN [p EXCEPT !.pc = "FAILED", !.attempts = 0,
                   !.failedAfter = p.attempts + 1, !.error = StepError(step)]
    ELSE [p EXCEPT !.pc = step, !.attempts = @ + 1]

(* Faulty variant: the cache is consulted whatever reprocess says.         *)
NeedsCheckAlways(p) == TRUE

(* if (!reprocess): whether the run starts with check_if_processed *)
NeedsCheck(p) == ~p.reprocess

(* Faulty variant: the null test of check_if_processed inverted.           *)
IsProcessedInverted(url) == KVGetIsNull(ProcessorCacheKey(url))

(* Faulty variant: the check reports every article as processed.           *)
IsProcessedAlways(url) == TRUE

(* Whether some instance for url sent its notification and then failed,    *)
(* so that its delivery was never recorded.                                *)
SentUnrecorded(url) ==
    \E k \in ProcIds :
        procs[k].url = url /\ procs[k].delivered /\ procs[k].pc = "FAILED"

(* Step 1: check_if_processed, and the early return on a hit.              *)
IsProcessed(url) == ~KVGetIsNull(ProcessorCacheKey(url))

CheckIfProcessed(i) ==
    LET p == procs[i] IN
    /\ p.pc = "START"
    /\ NeedsCheck(p)
    /\ LET q == [p EXCEPT !.cacheReads = @ + 1,
                          !.liveAtCheck = Delivered(p.url),
                          !.unrecordedAtCheck = SentUnrecorded(p.url)]
       IN procs' = [procs EXCEPT ![i] =
            IF IsProcessed(p.url)
            THEN [q EXCEPT !.pc = "SKIPPED", !.result = SkippedResult(p.url)]
            ELSE [q EXCEPT !.pc = "generate_summary"]]
    /\ UNCHANGED <<kv, now, runs, world, manualLeft, cronLeft>>

(* Step 2: generate_summary, and the throw on a falsy summary.             *)
AtGenerateSummary(p) ==
    \/ p.pc = "generate_summary"
    \/ p.pc = "START" /\ ~NeedsCheck(p)

GenerateSummary(i) ==
    LET p == procs[i] IN
    /\ AtGenerateSummary(p)
    /\ \/ \E o \in SummarizerOutcomes :
            LET s == summarizeArticle(o)
                q == [p EXCEPT !.summarizerCalls = @ + 1, !.summary = s,
                               !.attempts = 0]
            IN /\ o = "text" \/ env = "summarizer"
               /\ procs' = [procs EXCEPT ![i] =
                    IF Falsy(s)
                    THEN [q EXCEPT !.pc = "FAILED",
                                   !.failedAfter = p.attempts + 1,
                                   !.error = SummaryError(p.url)]
                    ELSE [q EXCEPT !.pc = "create_message"]]
       \/ /\ env = "slow"            \* the attempt runs into the step timeout
          /\ procs' = [procs EXCEPT ![i] =
                AfterFailedAttempt([p EXCEPT !.summarizerCalls = @ + 1],
                                   "generate_summary", SummaryRetryLimit)]
    /\ UNCHANGED <<kv, now, runs, world, manualLeft, cronLeft>>

(* Step 3: create_message *)
CreateMessage(i) ==
    LET p == procs[i] IN
    /\ p.pc = "create_message"
    /\ procs' = [procs EXCEPT ![i] = [p EXCEPT !.pc = "send_telegram_message"]]
    /\ UNCHANGED <<kv, now, runs, world, manualLeft, cronLeft>>

(* Step 4: send_telegram_message, and the throw on a false result.         *)
(* Faulty variant: the result of the send is not looked at.                *)
SendFailedNever(sendResult) == FALSE

(* if (!sendResult) *)
SendFailed(sendResult) == ~sendResult

StepImageUrl(p) ==
    IF p.image_url = <<>> THEN fallbackImageUrl ELSE p.image_url

SendTelegramMessage(i) ==
    LET p == procs[i] IN
    /\ p.pc = "send_telegram_message"
    /\ IF encodeURIThrows(StepImageUrl(p))
       THEN procs' = [procs EXCEPT ![i] =
                  AfterFailedAttempt(p, "send_telegram_message", SendRetryLimit)]
       ELSE \/ \E def \in SendDefinitions,
                   o1 \in NotifierOutcomes, o2 \in NotifierOutcomes :
                 LET r == sendTelegramMessage(def, encodeURI(StepImageUrl(p)),
                                              o1, o2)
                     q == [p EXCEPT !.notifierCalls = @ + Len(r.calls),
                                    !.sendLog = r.calls, !.attempts = 0,
                                    !.delivered = r.ret,
                                    !.sentLive = r.ret /\ Delivered(p.url)]
                 IN /\ (o1 = "ok" /\ o2 = "ok") \/ env = "notifier"
                    /\ procs' = [procs EXCEPT ![i] =
                         IF SendFailed(r.ret)
                         THEN [q EXCEPT !.pc = "FAILED",
                                        !.failedAfter = p.attempts + 1,
                                        !.error = SendError(p.url)]
                         ELSE [q EXCEPT !.pc = "mark_as_processed"]]
            \/ /\ env = "slow"       \* the attempt runs into the step timeout
               /\ procs' = [procs EXCEPT ![i] =
                     AfterFailedAttempt(p, "send_telegram_message",
                                        SendRetryLimit)]
    /\ UNCHANGED <<kv, now, runs, world, manualLeft, cronLeft>>

(* Step 5: mark_as_processed, and the final return.                        *)
MarkAsProcessed(i) ==
    LET p == procs[i] IN
    /\ p.pc = "mark_as_processed"
    /\ \/ /\ kv' = KVPut(ProcessorCacheKey(p.url), p.url, ttl)
          /\ procs' = [procs EXCEPT ![i] =
                [p EXCEPT !.pc = "DONE", !.attempts = 0,
                          !.cacheWrites = @ + 1,
                          !.result = SuccessResult(p.url)]]
       \/ /\ env = "kv"              \* the put throws
          /\ procs' = [procs EXCEPT ![i] =
                AfterFailedAttempt(p, "mark_as_processed", MarkRetryLimit)]
          /\ UNCHANGED kv
    /\ UNCHANGED <<now, runs, world, manualLeft, cronLeft>>

----------------------------------------------------------------------------
(* index.ts: POST /api/workflows/processor *)

ManualURLs == {"a"}
Titles == {"", "t"}

ProcessorEndpoint ==
    \E url \in ManualURLs \cup {""}, title \in Titles, image \in world.images,
       reprocess \in BOOLEAN :
        /\ url # "" /\ title # ""        \* otherwise 400, nothing is created
        /\ manualLeft > 0
        /\ Len(procs) < MaxProcs
        /\ manualLeft' = manualLeft - 1
        /\ procs' = Append(procs, NewProc(url, image, reprocess, 0))
        /\ UNCHANGED <<kv, now, runs, world, cronLeft>>

----------------------------------------------------------------------------
(* JoyNewsScraperWorkflow *)

(* What the listing page and the feed can hold *)
Listings == {<<"a", "a">>, <<"a", "b">>}
Feeds == {{"a"}}

(* A listing page with more links than one bulk read may carry *)
LongListing == [k \in 1..(BulkLimit + 1) |-> "c"]

(* entry.media_content?.[0]?.url || '' of the feed entry of a link *)
FeedMedia(link) == IF link = "a" THEN SpacedImage ELSE NoImage

NoRunResult ==
    [returned |-> FALSE, success |-> FALSE, total_links |-> 0,
     total_processed |-> 0, processors |-> <<>>]

NewRun ==
    [pc |-> "fetch_article_links", articleLinks |-> <<>>,
     linksFailed |-> FALSE, feedEntries |-> {}, feedFailed |-> FALSE,
     processed |-> <<>>, liveAtBulk |-> {}, knownAtBulk |-> {},
     articlesToProcess |-> <<>>,
     linkAttempts |-> 0, feedAttempts |-> 0,
     bulkReads |-> 0, bulkKeys |-> 0, batchCalls |-> 0,
     result |-> NoRunResult]

RunIds == 1..Len(runs)

(* index.ts: scheduled() and POST /api/workflows/scraper *)
CreateScraper ==
    /\ cronLeft > 0
    /\ cronLeft' = cronLeft - 1
    /\ runs' = Append(runs, NewRun)
    /\ UNCHANGED <<kv, now, procs, world, manualLeft>>

(* Faulty variant: the links survive a failed fetch.                       *)
scrapeMainPageAnyway(ok, links) == links

(* scrapeMainPage: the links of the page, [] when the fetch throws.        *)
scrapeMainPage(ok, links) == IF ok THEN links ELSE <<>>

(* scrapeFeed: the entries by link, {} when the fetch throws.              *)
scrapeFeed(ok, entries) == IF ok THEN entries ELSE {}

(* Step 1: fetch_article_links *)
FetchArticleLinks(r) ==
    LET run == runs[r] IN
    /\ run.pc = "fetch_article_links"
    /\ \E ok \in BOOLEAN :
        /\ ok \/ env = "site"
        /\ runs' = [runs EXCEPT ![r] =
              [run EXCEPT !.pc = "fetch_feed_entries",
                          !.linkAttempts = @ + 1,
                          !.articleLinks = scrapeMainPage(ok, page),
                          !.linksFailed = ~ok]]
    /\ UNCHANGED <<kv, now, procs, world, manualLeft, cronLeft>>

(* Step 2: fetch_feed_entries *)
FetchFeedEntries(r) ==
    LET run == runs[r] IN
    /\ run.pc = "fetch_feed_entries"
    /\ \E ok \in BOOLEAN :
        /\ ok \/ env = "site"
        /\ runs' = [runs EXCEPT ![r] =
              [run EXCEPT !.pc = "check_processed_articles",
                          !.feedAttempts = @ + 1,
                          !.feedEntries = scrapeFeed(ok, feed),
                          !.feedFailed = ~ok]]
    /\ UNCHANGED <<kv, now, procs, world, manualLeft, cronLeft>>

Range(s) == {s[k] : k \in 1..Len(s)}

(* Faulty variant: the bulk read is issued even for an empty list.         *)
NoLinksNever(articleLinks) == FALSE

(* if (articleLinks.length === 0) return processed *)
NoLinks(articleLinks) == Len(articleLinks) = 0

(* Step 3: check_processed_articles.  processed is the Record<string,      *)
(* boolean> of the step, a function on the links.                          *)
ProcessedOf(articleLinks) ==
    [link \in Range(articleLinks) |-> ~KVGetIsNull(ScraperCacheKey(link))]

CheckProcessedArticles(r) ==
    LET run == runs[r] IN
    /\ run.pc = "check_processed_articles"
    /\ \/ runs' = [runs EXCEPT ![r] =
             IF NoLinks(run.articleLinks)
             THEN [run EXCEPT !.pc = "prepare_articles"]
             ELSE [run EXCEPT !.pc = "prepare_articles",
                              !.knownAtBulk =
                                  {u \in Range(run.articleLinks) : Known(u)},
                              !.processed = ProcessedOf(run.articleLinks),
                              !.liveAtBulk =
                                  {u \in Range(run.articleLinks) : Delivered(u)},
                              !.bulkReads = @ + 1,
                              !.bulkKeys = Len(run.articleLinks)]]
       \/ /\ Len(run.articleLinks) > BulkLimit   \* the store refuses the read
          /\ runs' = [runs EXCEPT ![r] =
                [run EXCEPT !.pc = "FAILED",
                            !.bulkReads = @ + 1,
                            !.bulkKeys = Len(run.articleLinks)]]
    /\ UNCHANGED <<kv, now, procs, world, manualLeft, cronLeft>>

(* Faulty variant: prepare_articles ignores the bulk check.                *)
IsMarkedNever(processed, link) == FALSE

(* processedArticles[link], undefined (falsy) for a link it does not hold  *)
IsMarked(processed, link) == link \in DOMAIN processed /\ processed[link]

(* Faulty variant: prepare_articles takes every link to have a feed entry. *)
HasFeedEntryAlways(feedEntries, link) == TRUE

(* const entry = feedEntries[link]; if (!entry) ... continue               *)
HasFeedEntry(feedEntries, link) == link \in feedEntries

(* Step 4: prepare_articles, the loop over articleLinks in order.          *)
PrepareArticlesOf(articleLinks, processed, feedEntries) ==
    LET Kept(link) == ~IsMarked(processed, link) /\ HasFeedEntry(feedEntries, link)
        kept == SelectSeq(articleLinks, Kept)
    IN [k \in 1..Len(kept) |->
            [url |-> kept[k], image_url |-> FeedMedia(kept[k])]]

PrepareArticles(r) ==
    LET run == runs[r] IN
    /\ run.pc = "prepare_articles"
    /\ runs' = [runs EXCEPT ![r] =
          [run EXCEPT !.pc = "trigger_processors",
                      !.articlesToProcess =
                          PrepareArticlesOf(run.articleLinks, run.processed,
                                            run.feedEntries)]]
    /\ UNCHANGED <<kv, now, procs, world, manualLeft, cronLeft>>

(* Step 5: trigger_processors (createBatch), and the return.               *)
(* Faulty variant: only the first article is handed to createBatch.        *)
BatchOfFirst(articles, r) ==
    [k \in 1..(IF Len(articles) = 0 THEN 0 ELSE 1) |->
        NewProc(articles[k].url, articles[k].image_url, FALSE, r)]

BatchOf(articles, r) ==
    [k \in 1..Len(articles) |->
        NewProc(articles[k].url, articles[k].image_url, FALSE, r)]

(* Faulty variant: the status of a record is left open.                    *)
ProcessorResultsPending(articles, firstId) ==
    [k \in 1..Len(articles) |->
        [url |-> articles[k].url, processor_id |-> firstId + k - 1,
         status |-> "pending"]]

ProcessorResults(articles, firstId) ==
    [k \in 1..Len(articles) |->
        [url |-> articles[k].url, processor_id |-> firstId + k - 1,
         status |-> "triggered"]]

TriggerProcessors(r) ==
    LET run == runs[r]
        articles == run.articlesToProcess
        batch == BatchOf(articles, r)
        processorResults == IF Len(articles) = 0 THEN <<>>
                            ELSE ProcessorResults(articles, Len(procs) + 1)
    IN
    /\ run.pc = "trigger_processors"
    /\ Len(procs) + Len(batch) <= MaxProcs
    /\ procs' = procs \o batch
    /\ runs' = [runs EXCEPT ![r] =
          [run EXCEPT !.pc = "DONE",
                      !.batchCalls = IF Len(articles) = 0 THEN @ ELSE @ + 1,
                      !.result =
                          [returned |-> TRUE, success |-> TRUE,
                           total_links |-> Len(run.articleLinks),
                           total_processed |-> Len(articles),
                           processors |-> processorResults]]]
    /\ UNCHANGED <<kv, now, world, manualLeft, cronLeft>>

----------------------------------------------------------------------------
(* The news site publishes: the feed gains the item of a listed link.      *)
Publish ==
    /\ \E link \in (Range(page) \cap URLs) \ feed :
          world' = [world EXCEPT !.feed = @ \cup {link}]
    /\ UNCHANGED <<kv, now, procs, runs, manualLeft, cronLeft>>

(* The clock *)
Tick ==
    /\ now + TickSeconds <= MaxTicks * TickSeconds
    /\ now' = now + TickSeconds
    /\ UNCHANGED <<kv, procs, runs, world, manualLeft, cronLeft>>

----------------------------------------------------------------------------
(* The workloads explored: the deployed worker triggered by cron with its  *)
(* collaborators healthy, and manual requests against one failing          *)
(* collaborator.                                                           *)
Workloads ==
    {[cron |-> MaxRuns, manual |-> 0, env |-> "healthy", page |-> l,
      feed |-> f, images |-> {}] : l \in Listings, f \in Feeds}
    \cup {[cron |-> MaxSiteRuns, manual |-> 0, env |-> "site", page |-> l,
            feed |-> f, images |-> {}] : l \in Listings, f \in Feeds}
    \cup {[cron |-> MaxLongRuns, manual |-> 0, env |-> "healthy",
            page |-> LongListing, feed |-> {}, images |-> {}]}
    \cup {[cron |-> MaxFailingRuns, manual |-> 0, env |-> "summarizer",
            page |-> <<"a", "a">>, feed |-> {"a"}, images |-> {}]}
    \cup {[cron |-> 0, manual |-> MaxManual, env |-> e, page |-> <<>>,
            feed |-> {}, images |-> {NoImage}] :
                e \in {"summarizer", "notifier", "kv"}}
    \cup {[cron |-> 0, manual |-> MaxSlowProcs, env |-> "slow", page |-> <<>>,
            feed |-> {}, images |-> {NoImage, SpacedImage, MalformedImage}]}

Init ==
    /\ kv = <<>>
    /\ now = 0
    /\ procs = <<>>
    /\ runs = <<>>
    /\ \E w \in Workloads :
        /\ world = [env |-> w.env, page |-> w.page, feed |-> w.feed,
                    images |-> w.images]
        /\ manualLeft = w.manual
        /\ cronLeft = w.cron

Next ==
    \/ ProcessorEndpoint
    \/ CreateScraper
    \/ Tick
    \/ Publish
    \/ \E i \in ProcIds : CheckIfProcessed(i)
    \/ \E i \in ProcIds : GenerateSummary(i)
    \/ \E i \in ProcIds : CreateMessage(i)
    \/ \E i \in ProcIds : SendTelegramMessage(i)
    \/ \E i \in ProcIds : MarkAsProcessed(i)
    \/ \E r \in RunIds : FetchArticleLinks(r)
    \/ \E r \in RunIds : FetchFeedEntries(r)
    \/ \E r \in RunIds : CheckProcessedArticles(r)
    \/ \E r \in RunIds : PrepareArticles(r)
    \/ \E r \in RunIds : TriggerProcessors(r)

Spec == Init /\ [][Next]_vars

----------------------------------------------------------------------------
(* The Delivery workflow on its own, under fair scheduling: the runtime    *)
(* runs the next step of every instance that has one, and every external   *)
(* call of a step completes, fails or runs into the step timeout.          *)
DeliveryStep(i) ==
    /\ i \in ProcIds
    /\ \/ CheckIfProcessed(i)
       \/ GenerateSummary(i)
       \/ CreateMessage(i)
       \/ SendTelegramMessage(i)
       \/ MarkAsProcessed(i)

(* Manual requests with every collaborator healthy, and fewer of them      *)
(* against one failing collaborator.                                       *)
DeliveryWorkloads ==
    {[cron |-> 0, manual |-> MaxManual, env |-> "healthy", page |-> <<>>,
      feed |-> {}, images |-> {NoImage}]}
    \cup {[cron |-> 0, manual |-> MaxSlowProcs, env |-> e, page |-> <<>>,
            feed |-> {}, images |-> {NoImage}] :
                e \in {"summarizer", "notifier", "kv"}}
    \cup {[cron |-> 0, manual |-> MaxSlowProcs, env |-> "slow", page |-> <<>>,
            feed |-> {}, images |-> {NoImage, MalformedImage}]}

DeliveryInit ==
    /\ kv = <<>>
    /\ now = 0
    /\ procs = <<>>
    /\ runs = <<>>
    /\ \E w \in DeliveryWorkloads :
        /\ world = [env |-> w.env, page |-> w.page, feed |-> w.feed,
                    images |-> w.images]
        /\ manualLeft = w.manual
        /\ cronLeft = w.cron

DeliveryNext ==
    \/ ProcessorEndpoint
    \/ \E i \in ProcIds : CheckIfProcessed(i)
    \/ \E i \in ProcIds : GenerateSummary(i)
    \/ \E i \in ProcIds : CreateMessage(i)
    \/ \E i \in ProcIds : SendTelegramMessage(i)
    \/ \E i \in ProcIds : MarkAsProcessed(i)

DeliverySpec ==
    /\ DeliveryInit
    /\ [][DeliveryNext]_vars
    /\ \A i \in 1..MaxProcs : WF_vars(DeliveryStep(i))

----------------------------------------------------------------------------
(* Properties *)

(* The instances a scraper run created for a URL, and how often a listing  *)
(* holds a URL.                                                            *)
TriggeredBy(r, u) == {i \in ProcIds : procs[i].origin = r /\ procs[i].url = u}
Occurrences(links, u) == Cardinality({k \in 1..Len(links) : links[k] = u})
InstancesOf(u) == {i \in ProcIds : procs[i].url = u}

(* C1: for a URL whose Delivery instances all have reprocess=false, at     *)
(* most one notification is sent per retention window under every          *)
(* interleaving: no such instance sends its notification while a delivery  *)
(* of the same URL recorded less than 24 h earlier is still in the cache.  *)
C1_AtMostOncePerWindow ==
    \A u \in URLs :
        (\A i \in InstancesOf(u) : ~procs[i].reprocess)
            => \A i \in InstancesOf(u) : ~procs[i].sentLive

(* C2: two Discovery runs that both pass their bulk check before any       *)
(* delivery of a URL was recorded do not both create an instance for it:   *)
(* when two runs hold an instance for the same URL, one of them saw the    *)
(* URL's record at its bulk check.                                         *)
C2_NoDoubleTrigger ==
    \A i \in ProcIds, j \in ProcIds :
        (/\ procs[i].origin # 0
         /\ procs[j].origin # 0
         /\ procs[i].origin # procs[j].origin
         /\ procs[i].url = procs[j].url)
            => \/ procs[i].url \in runs[procs[i].origin].knownAtBulk
               \/ procs[j].url \in runs[procs[j].origin].knownAtBulk

(* C3: within one Discovery run the fan-out creates at most one instance   *)
(* per distinct URL, whatever the listing and the feed hold.               *)
C3_OnePerUrlPerRun ==
    \A r \in RunIds, u \in URLs : Cardinality(TriggeredBy(r, u)) <= 1

(* C4: a Delivery instance with reprocess=false that finds a live cache    *)
(* entry for its URL ends with the skipped result and has made no          *)
(* Summarizer call, no Notifier call and no cache write.                   *)
C4_LiveEntrySkips ==
    \A i \in ProcIds :
        LET p == procs[i] IN
        (~p.reprocess /\ p.liveAtCheck)
            => /\ p.pc = "SKIPPED"
               /\ p.result = [returned |-> TRUE, success |-> TRUE,
                              skipped |-> TRUE,
                              reason |-> "Article already processed",
                              url |-> p.url, telegramSent |-> FALSE]
               /\ p.summarizerCalls = 0
               /\ p.notifierCalls = 0
               /\ p.cacheWrites = 0

(* A reprocess=false instance has met a live entry and returned skipped.   *)
C4_Witness ==
    \E i \in ProcIds :
        /\ ~procs[i].reprocess
        /\ procs[i].liveAtCheck
        /\ procs[i].cacheReads = 1
        /\ procs[i].result.returned

(* C5: a Delivery instance with reprocess=true never reads the cache and   *)
(* never returns skipped; its first step is generate_summary whatever the  *)
(* cache holds, the Notifier is called only after a usable summary, and    *)
(* the record is written only after the send succeeded.                    *)
C5_ReprocessOverride ==
    \A i \in ProcIds :
        LET p == procs[i] IN
        p.reprocess
            => /\ p.cacheReads = 0
               /\ p.pc # "SKIPPED"
               /\ ~p.result.skipped
               /\ p.pc = "START" => AtGenerateSummary(p)
               /\ p.notifierCalls > 0
                    => p.summarizerCalls > 0 /\ p.summary = "summary"
               /\ p.cacheWrites > 0 => p.delivered /\ p.notifierCalls > 0
               /\ p.pc = "DONE"
                    => /\ p.cacheWrites = 1
                       /\ p.result.returned /\ p.result.success
                       /\ p.result.telegramSent

(* A reprocess=true instance has sent although a live entry existed, and   *)
(* has recorded.                                                           *)
C5_Witness ==
    \E i \in ProcIds :
        /\ procs[i].reprocess
        /\ procs[i].sentLive
        /\ procs[i].pc = "DONE"

C7_FeedAuthority ==
    \A r \in RunIds :
        LET run == runs[r] IN
        /\ \A k \in 1..Len(run.articlesToProcess) :
              run.articlesToProcess[k].url \in run.feedEntries
        /\ \A i \in ProcIds :
              procs[i].origin = r => procs[i].url \in run.feedEntries
        /\ run.pc = "DONE"
              => /\ run.result.returned /\ run.result.success
                 /\ \A k \in 1..Len(run.result.processors) :
                       run.result.processors[k].url \in run.feedEntries
        /\ (/\ run.pc = "DONE"
            /\ run.articleLinks = <<"a", "b">>
            /\ run.feedEntries = {"a"}
            /\ \A u \in DOMAIN run.processed : ~run.processed[u])
              => /\ Len(run.result.processors) = 1
                 /\ run.result.processors[1].url = "a"
                 /\ Cardinality({i \in ProcIds : procs[i].origin = r}) = 1
                 /\ TriggeredBy(r, "b") = {}

(* The run of the scenario has finished: listing [a, b], feed {a}, no      *)
(* cache entry.                                                            *)
C7_Witness ==
    \E r \in RunIds :
        /\ runs[r].pc = "DONE"
        /\ runs[r].articleLinks = <<"a", "b">>
        /\ runs[r].feedEntries = {"a"}
        /\ runs[r].knownAtBulk = {}
        /\ runs[r].result.total_processed = 1

(* C8: an instance whose Summarizer call yielded null or an empty summary  *)
(* has failed with the error naming its URL, has not called the Notifier   *)
(* and has written no cache entry; nor has an instance whose               *)
(* generate_summary step ran out of attempts.                              *)
C8_NoSummaryIsFatal ==
    \A i \in ProcIds :
        LET p == procs[i] IN
        /\ p.summary \in {"null", ""}
              => /\ p.pc = "FAILED"
                 /\ p.error = <<"Failed to generate summary for article: ",
                                p.url>>
                 /\ p.notifierCalls = 0
                 /\ p.cacheWrites = 0
                 /\ ~p.delivered
                 /\ ProcessorCacheKey(p.url) \in DOMAIN kv
                       => \E j \in ProcIds \ {i} : procs[j].cacheWrites > 0
        /\ (p.pc = "FAILED" /\ p.error = StepError("generate_summary"))
              => p.notifierCalls = 0 /\ p.cacheWrites = 0

(* An instance failed because summarizeArticle returned null, another      *)
(* because the summary was empty.                                          *)
C8_Witness ==
    /\ \E i \in ProcIds :
          procs[i].summary = "null" /\ procs[i].pc = "FAILED"
    /\ \E i \in ProcIds :
          procs[i].summary = "" /\ procs[i].pc = "FAILED"

(* C9: within one send, a successful attempt with the supplied image is    *)
(* the only attempt; a failed one is followed by exactly one attempt with  *)
(* the fallback image, and the send succeeds exactly when that one does.   *)
C9_FallbackOnce ==
    \A i \in ProcIds :
        LET p == procs[i]
            log == p.sendLog
        IN log # <<>>
            => /\ log[1].ok => Len(log) = 1 /\ p.delivered
               /\ ~log[1].ok
                    => /\ Len(log) = 2
                       /\ log[2].photo = fallbackImageUrl
                       /\ p.delivered <=> log[2].ok

(* C10: both stages look a URL up under "article:" + url, the key the      *)
(* record is written under with a 24-hour TTL: the Delivery check and the  *)
(* Discovery bulk check report a URL as delivered exactly while a record   *)
(* of it is younger than 24 hours.                                         *)
C10_CacheKeyStability ==
    /\ \A u \in URLs :
          /\ IsProcessed(u) <=> Delivered(u)
          /\ ~KVGetIsNull(ScraperCacheKey(u)) <=> Delivered(u)
          /\ ProcessorCacheKey(u) = <<"article:", u>>
          /\ ScraperCacheKey(u) = <<"article:", u>>
    /\ \A k \in DOMAIN kv :
          /\ k = <<"article:", kv[k].url>>
          /\ kv[k].expiration = kv[k].processed_at + 24 * 60 * 60
          /\ Delivered(kv[k].url) <=> now < kv[k].processed_at + 24 * 60 * 60
    /\ \A i \in ProcIds :
          (~procs[i].reprocess /\ procs[i].pc # "START")
              => (procs[i].pc = "SKIPPED" <=> procs[i].liveAtCheck)
    /\ \A r \in RunIds :
          \A u \in DOMAIN runs[r].processed :
              runs[r].processed[u] <=> u \in runs[r].liveAtBulk

(* A Delivery check hit a record before its TTL had passed, and a          *)
(* Discovery bulk check missed a record whose TTL had passed.              *)
C10_Witness ==
    /\ \E i \in ProcIds :
          procs[i].pc = "SKIPPED" /\ procs[i].liveAtCheck
    /\ \E r \in RunIds :
          \E u \in DOMAIN runs[r].processed :
              u \in runs[r].knownAtBulk /\ ~runs[r].processed[u]

(* The instances a scraper run created *)
SpawnedBy(r) == {i \in ProcIds : procs[i].origin = r}

(* C11: the step in which a Delivery instance fails fatally changes no     *)
(* other instance, no Discovery run and no cache entry; and a finished     *)
(* Discovery run reports success and every spawned instance as             *)
(* 'triggered', however its instances have ended.                          *)
C11_FailureIsolation ==
    /\ [][\A i \in ProcIds :
            (procs[i].pc # "FAILED" /\ procs'[i].pc = "FAILED")
                => /\ runs' = runs
                   /\ kv' = kv
                   /\ \A j \in ProcIds \ {i} : procs'[j] = procs[j]]_vars
    /\ [](\A r \in RunIds :
            runs[r].pc = "DONE"
                => /\ runs[r].result.success
                   /\ Len(runs[r].result.processors) = Cardinality(SpawnedBy(r))
                   /\ \A k \in 1..Len(runs[r].result.processors) :
                         runs[r].result.processors[k].status = "triggered")

(* A finished run one of whose instances failed fatally while a sibling    *)
(* delivered and recorded.                                                 *)
C11_Witness ==
    \E r \in RunIds :
        /\ runs[r].pc = "DONE"
        /\ \E i \in SpawnedBy(r), j \in SpawnedBy(r) :
              /\ procs[i].pc = "FAILED"
              /\ procs[j].pc = "DONE"

(* C12: a failed listing fetch yields the empty list and a failed feed     *)
(* fetch the empty mapping; the run is not aborted by it, assembles no     *)
(* article from the missing data, and its result reports success.          *)
C12_FetchFailureDegrades ==
    \A r \in RunIds :
        LET run == runs[r] IN
        /\ run.linksFailed => run.articleLinks = <<>>
        /\ run.feedFailed => run.feedEntries = {}
        /\ (run.linksFailed \/ run.feedFailed)
              => /\ run.pc \in {"fetch_feed_entries", "check_processed_articles",
                                "prepare_articles", "trigger_processors", "DONE"}
                 /\ run.articlesToProcess = <<>>
                 /\ SpawnedBy(r) = {}
                 /\ run.pc = "DONE"
                       => run.result.returned /\ run.result.success

(* A run whose feed fetch failed, the listing fetch having succeeded, has  *)
(* gone through its remaining steps and returned success.                  *)
C12_Witness ==
    \E r \in RunIds :
        /\ runs[r].feedFailed
        /\ ~runs[r].linksFailed
        /\ runs[r].articleLinks # <<>>
        /\ runs[r].bulkReads = 1
        /\ runs[r].pc = "DONE"
        /\ runs[r].result.success

(* C13: an instance that failed for want of a summary failed only after    *)
(* the generate_summary step had been attempted 3 times.                   *)
C13_SummaryRetried ==
    \A i \in ProcIds :
        (/\ procs[i].pc = "FAILED"
         /\ procs[i].error = SummaryError(procs[i].url))
            => procs[i].failedAfter >= SummaryRetryLimit

(* C14: an instance that failed because the Notifier reported failure      *)
(* failed only after the send_telegram_message step had been attempted 5   *)
(* times, and no cache entry was written by it.                            *)
C14_SendRetried ==
    \A i \in ProcIds :
        (/\ procs[i].pc = "FAILED"
         /\ procs[i].error = SendError(procs[i].url))
            => /\ procs[i].failedAfter >= SendRetryLimit
               /\ procs[i].cacheWrites = 0

(* C15: the empty list of a failed listing fetch, and the empty mapping of *)
(* a failed feed fetch, is produced only after the step had been attempted *)
(* 3 times.                                                                *)
C15_FetchRetried ==
    \A r \in RunIds :
        /\ runs[r].linksFailed => runs[r].linkAttempts >= FetchRetryLimit
        /\ runs[r].feedFailed => runs[r].feedAttempts >= FetchRetryLimit

(* C16: a cache entry for a URL exists only if an instance for that URL    *)
(* completed a send that reported success; an instance is at the record    *)
(* step, or has written, only with a usable summary and a successful send. *)
C16_RecordOnlyAfterSend ==
    /\ \A k \in DOMAIN kv :
          \E i \in ProcIds :
              /\ procs[i].url = kv[k].url
              /\ procs[i].delivered
              /\ procs[i].sendLog # <<>>
              /\ procs[i].sendLog[Len(procs[i].sendLog)].ok
              /\ procs[i].cacheWrites > 0
    /\ \A i \in ProcIds :
          (procs[i].pc \in {"mark_as_processed", "DONE"}
                \/ procs[i].cacheWrites > 0)
              => /\ procs[i].delivered
                 /\ procs[i].summary = "summary"
                 /\ procs[i].sendLog # <<>>
                 /\ procs[i].sendLog[Len(procs[i].sendLog)].ok
    /\ \A i \in ProcIds :
          (~procs[i].delivered \/ procs[i].summary \in {"", "null"})
              => procs[i].cacheWrites = 0

(* An instance has recorded after its send succeeded on the fallback       *)
(* attempt, and the entry is in the cache.                                 *)
C16_Witness ==
    \E i \in ProcIds :
        /\ procs[i].cacheWrites = 1
        /\ Len(procs[i].sendLog) = 2
        /\ ProcessorCacheKey(procs[i].url) \in DOMAIN kv

(* The order of the steps of a Delivery instance: each state and the       *)
(* states that may follow it.                                              *)
StepsAfter(p) ==
    CASE p.pc = "START" ->
            IF p.reprocess
            THEN {"generate_summary", "create_message", "FAILED"}
            ELSE {"generate_summary", "SKIPPED"}
      [] p.pc = "generate_summary" ->
            {"generate_summary", "create_message", "FAILED"}
      [] p.pc = "create_message" -> {"send_telegram_message"}
      [] p.pc = "send_telegram_message" ->
            {"send_telegram_message", "mark_as_processed", "FAILED"}
      [] p.pc = "mark_as_processed" -> {"mark_as_processed", "DONE", "FAILED"}
      [] OTHER -> {}

(* C17: an instance moves only along START, check, summarize, compose,     *)
(* send, record, DONE: a step follows the successful completion of the     *)
(* previous one, a step is entered again only as the retry of an attempt   *)
(* that did not complete, SKIPPED is entered only from the idempotency     *)
(* check, and DONE, SKIPPED and FAILED are final.                          *)
C17_StepOrder ==
    [][\A i \in ProcIds :
            procs'[i].pc # procs[i].pc
                => /\ procs'[i].pc \in StepsAfter(procs[i])
                   /\ procs'[i].pc = "SKIPPED"
                        => procs[i].pc = "START" /\ procs'[i].cacheReads = 1
                   /\ procs'[i].pc = "create_message"
                        => procs'[i].summary = "summary"
                   /\ procs'[i].pc = "mark_as_processed"
                        => procs'[i].delivered
                   /\ procs'[i].pc = "DONE" => procs'[i].cacheWrites = 1]_vars

(* An instance reached DONE although attempts of its steps had run into    *)
(* the step timeout and were retried.                                      *)
C17_Witness ==
    \E i \in ProcIds :
        /\ procs[i].pc = "DONE"
        /\ procs[i].summarizerCalls > 1
        /\ procs[i].cacheReads = 1

(* C18: whatever the length of the candidate list, the bulk check issues   *)
(* one bulk read (none for the empty list, see C20) and that read carries  *)
(* at most 100 keys.                                                       *)
C18_OneBoundedBulkRead ==
    \A r \in RunIds :
        /\ runs[r].bulkReads <= 1
        /\ (runs[r].pc \in {"prepare_articles", "trigger_processors", "DONE"}
                /\ runs[r].articleLinks # <<>>)
              => runs[r].bulkReads = 1
        /\ runs[r].bulkKeys <= BulkLimit

(* C19: a run makes at most one createBatch call, with one entry per       *)
(* assembled article; its result holds one record per article, in order,   *)
(* pairing the article's URL with the id of the instance created for it    *)
(* and the status 'triggered', and total_processed counts the records.     *)
C19_SingleBatch ==
    \A r \in RunIds :
        LET run == runs[r]
            recs == run.result.processors
        IN /\ run.batchCalls <= 1
           /\ run.pc # "DONE" => SpawnedBy(r) = {} /\ run.batchCalls = 0
           /\ run.pc = "DONE"
                => /\ run.batchCalls = 1 <=> run.articlesToProcess # <<>>
                   /\ Cardinality(SpawnedBy(r)) = Len(run.articlesToProcess)
                   /\ Len(recs) = Len(run.articlesToProcess)
                   /\ run.result.total_processed = Len(recs)
                   /\ \A k \in 1..Len(recs) :
                         /\ recs[k].url = run.articlesToProcess[k].url
                         /\ recs[k].status = "triggered"
                         /\ recs[k].processor_id \in SpawnedBy(r)
                         /\ procs[recs[k].processor_id].url = recs[k].url
                         /\ \A m \in 1..Len(recs) :
                               k < m => recs[k].processor_id < recs[m].processor_id

(* A finished run that created two instances, for different URLs, in one   *)
(* call.                                                                   *)
C19_Witness ==
    \E r \in RunIds :
        /\ runs[r].pc = "DONE"
        /\ runs[r].batchCalls = 1
        /\ Len(runs[r].result.processors) = 2
        /\ runs[r].result.processors[1].url # runs[r].result.processors[2].url

(* C20: a run whose listing fetch yielded no link ends with total_links 0, *)
(* total_processed 0 and no processors, and makes neither a bulk cache     *)
(* read nor a createBatch call.                                            *)
C20_ZeroLinks ==
    \A r \in RunIds :
        LET run == runs[r] IN
        (run.linkAttempts > 0 /\ run.articleLinks = <<>>)
            => /\ run.bulkReads = 0
               /\ run.batchCalls = 0
               /\ SpawnedBy(r) = {}
               /\ run.pc # "FAILED"
               /\ run.pc = "DONE"
                    => /\ run.result.returned
                       /\ run.result.total_links = 0
                       /\ run.result.total_processed = 0
                       /\ run.result.processors = <<>>

(* A run with no candidate link has returned.                              *)
C20_Witness ==
    \E r \in RunIds :
        /\ runs[r].linkAttempts > 0
        /\ runs[r].articleLinks = <<>>
        /\ runs[r].pc = "DONE"
        /\ runs[r].result.total_links = 0

(* C21: an instance whose send succeeded and whose record step ran out of  *)
(* attempts has written no cache entry; a later reprocess=false instance   *)
(* for the same URL that runs its check then, with no entry in the cache,  *)
(* is not skipped, and goes on to send a second notification.              *)
C21_UnrecordedSendAllowsDuplicate ==
    /\ \A i \in ProcIds :
          (procs[i].delivered /\ procs[i].pc = "FAILED")
              => /\ procs[i].error = StepError("mark_as_processed")
                 /\ procs[i].failedAfter = MarkRetryLimit
                 /\ procs[i].cacheWrites = 0
    /\ \A j \in ProcIds :
          (procs[j].unrecordedAtCheck /\ ~procs[j].liveAtCheck)
              => /\ ~procs[j].reprocess
                 /\ procs[j].pc # "SKIPPED"
                 /\ ~procs[j].result.skipped

(* The first instance sent and never recorded; the second, with            *)
(* reprocess=false, checked after that, was not skipped and has sent too.  *)
C21_Witness ==
    \E i \in ProcIds, j \in ProcIds :
        /\ i # j
        /\ procs[i].url = procs[j].url
        /\ procs[i].delivered /\ procs[i].pc = "FAILED"
        /\ ~procs[j].reprocess
        /\ procs[j].unrecordedAtCheck
        /\ procs[j].delivered
        /\ ~Known(procs[j].url)

(* C22: a finished Discovery run that found the entry of a URL expired at  *)
(* its bulk check, the URL being in its listing and its feed, has created  *)
(* an instance for it; that instance, finding no live entry at its check,  *)
(* is not skipped and records only after sending again.                    *)
C22_RedeliveryAfterExpiry ==
    \A r \in RunIds :
        \A u \in (runs[r].knownAtBulk \ runs[r].liveAtBulk) \cap runs[r].feedEntries :
            /\ ~runs[r].processed[u]
            /\ runs[r].pc \in {"trigger_processors", "DONE"}
                  => \E k \in 1..Len(runs[r].articlesToProcess) :
                        runs[r].articlesToProcess[k].url = u
            /\ runs[r].pc = "DONE"
                  => /\ TriggeredBy(r, u) # {}
                     /\ \A i \in TriggeredBy(r, u) :
                           /\ ~procs[i].reprocess
                           /\ (procs[i].cacheReads = 1 /\ ~procs[i].liveAtCheck)
                                 => procs[i].pc # "SKIPPED"
                           /\ procs[i].pc = "DONE"
                                 => procs[i].delivered /\ procs[i].notifierCalls > 0

(* A run found the entry of a URL expired and created an instance, which   *)
(* has sent the notification again and recorded.                           *)
C22_Witness ==
    \E r \in RunIds :
        \E u \in runs[r].knownAtBulk \ runs[r].liveAtBulk :
            \E i \in TriggeredBy(r, u) :
                /\ procs[i].delivered
                /\ ~procs[i].sentLive
                /\ procs[i].pc = "DONE"

Terminated(p) == p.pc \in {"DONE", "SKIPPED", "FAILED"}

(* C23: under fair scheduling every Delivery instance ends as DONE with    *)
(* the success result, as SKIPPED with the skipped result, or as FAILED    *)
(* with an error and no result; no step is attempted more often than its   *)
(* retry limit allows.                                                     *)
C23_Termination ==
    /\ \A i \in 1..MaxProcs :
          (i \in ProcIds) ~> (i \in ProcIds /\ Terminated(procs[i]))
    /\ [](\A i \in ProcIds :
            LET p == procs[i] IN
            /\ p.pc = "DONE" => p.result = SuccessResult(p.url) /\ p.error = NoError
            /\ p.pc = "SKIPPED" => p.result = SkippedResult(p.url) /\ p.error = NoError
            /\ p.pc = "FAILED" => p.result = NoResult /\ p.error # NoError
            /\ ~Terminated(p) => p.result = NoResult /\ p.error = NoError
            /\ p.attempts < SendRetryLimit
            /\ p.pc = "generate_summary" => p.attempts < SummaryRetryLimit
            /\ p.pc = "mark_as_processed" => p.attempts < MarkRetryLimit)

(* An instance has failed after its send step was attempted as often as    *)
(* the retry limit allows, every attempt having run into the timeout.      *)
C23_Witness ==
    \E i \in ProcIds :
        /\ procs[i].pc = "FAILED"
        /\ procs[i].error = StepError("send_telegram_message")
        /\ procs[i].failedAfter = SendRetryLimit

(* C24: a step changes the cache only if it is the record step of a        *)
(* Delivery instance completing, and then it writes only the key           *)
(* "article:" + that instance's URL; every other entry, and every step of  *)
(* a Discovery run, of the check, and of a failing or skipped instance,    *)
(* leaves the cache as it was.                                             *)
C24_SingleWriter ==
    [][kv' # kv =>
        /\ runs' = runs
        /\ \E i \in ProcIds :
              LET key == <<"article:", procs[i].url>> IN
              /\ procs[i].pc = "mark_as_processed"
              /\ procs'[i].pc = "DONE"
              /\ procs'[i].cacheWrites = procs[i].cacheWrites + 1
              /\ \A j \in ProcIds \ {i} : procs'[j] = procs[j]
              /\ DOMAIN kv' = DOMAIN kv \cup {key}
              /\ kv'[key].url = procs[i].url
              /\ \A k \in DOMAIN kv \ {key} : kv'[k] = kv[k]]_vars

(* Two instances have recorded, each under the key of its own URL, and an  *)
(* instance has been skipped.                                              *)
C24_Witness ==
    /\ Cardinality(DOMAIN kv) = 2
    /\ \E i \in ProcIds, j \in ProcIds :
          /\ procs[i].url # procs[j].url
          /\ procs[i].cacheWrites = 1
          /\ procs[j].cacheWrites = 1

====
